---- MODULE Spec2Model ----
(***************************************************************************)
(* Model of packages/repro/src/simple-runner.ts: the simple tasks runner   *)
(* (simpleTasksRunner / runAllTasks), its graph reducer (updateTaskGraph)   *)
(* and the background drain of executor streams (exhaustAsyncIterator).     *)
(*                                                                         *)
(* Task ids are the numbers 1..NumTasks.  A TaskGraph is a record          *)
(*   tasks        : sequence of task ids, the key order of the tasks object *)
(*   dependencies : function from the task ids to sequences of ids          *)
(*   roots        : sequence of task ids                                    *)
(***************************************************************************)
EXTENDS Integers, Sequences, FiniteSets, TLC

\* ---------------------------------------------------------------- bounds
NumTasks == 2
MaxEdges == 2
MaxExtra == 1

TaskIds == 1..NumTasks

\* ---------------------------------------------------------------- helpers
Range(s) == {s[i] : i \in 1..Len(s)}

Includes(s, x) == \E i \in 1..Len(s) : s[i] = x

RECURSIVE SetToSeq(_)
\* the members of a set of ids in ascending order (the order keys were inserted)
SetToSeq(S) ==
  IF S = {} THEN <<>>
  ELSE LET m == CHOOSE x \in S : \A y \in S : x <= y
       IN <<m>> \o SetToSeq(S \ {m})

\* _.omit(old.tasks, completed) followed by Object.keys: key order is kept
Omit(tasks, completed) ==
  SelectSeq(tasks, LAMBDA t : ~Includes(completed, t))

\* variant: the remaining ids come out in ascending order, not in their order
Difference_Sorted(array, values) == SetToSeq(Range(array) \ Range(values))

\* _.difference(array, values): members of values removed, order kept
Difference(array, values) ==
  SelectSeq(array, LAMBDA d : ~Includes(values, d))

\* variant: the dependency lists are copied, completed ids are not removed
updateTaskGraph_StaleDeps(old, completed) ==
  LET taskIds == Omit(old.tasks, completed)
      dependencies == [t \in Range(taskIds) |-> old.dependencies[t]]
      roots == SelectSeq(taskIds, LAMBDA t : 0 = Len(dependencies[t]))
  IN [tasks |-> taskIds, dependencies |-> dependencies, roots |-> roots]

\* variant: roots are the tasks whose list was empty before the pruning
updateTaskGraph_RootsFromOld(old, completed) ==
  LET taskIds == Omit(old.tasks, completed)
      dependencies ==
        [t \in Range(taskIds) |-> Difference(old.dependencies[t], completed)]
      roots == SelectSeq(taskIds, LAMBDA t : 0 = Len(old.dependencies[t]))
  IN [tasks |-> taskIds, dependencies |-> dependencies, roots |-> roots]

\* variant: every remaining task is taken as a root, dependencies not looked at
updateTaskGraph_AllRoots(old, completed) ==
  LET taskIds == Omit(old.tasks, completed)
      dependencies ==
        [t \in Range(taskIds) |-> Difference(old.dependencies[t], completed)]
  IN [tasks |-> taskIds, dependencies |-> dependencies, roots |-> taskIds]

updateTaskGraph(old, completed) ==
  LET taskIds == Omit(old.tasks, completed)
      dependencies ==
        [t \in Range(taskIds) |-> Difference(old.dependencies[t], completed)]
      roots == SelectSeq(taskIds, LAMBDA t : 0 = Len(dependencies[t]))
  IN [tasks |-> taskIds, dependencies |-> dependencies, roots |-> roots]

\* const code = 'success' === status ? 0 : 1
ExitCode(status) == IF status = "success" THEN 0 ELSE 1

\* status = success ? 'success' : 'failure'
StatusOf(success) == IF success THEN "success" ELSE "failure"

\* ---------------------------------------------------------------- state
VARIABLES
  taskGraph,       \* context.taskGraph, the caller's graph (never written)
  submitted,       \* ids of the tasks argument
  todoTaskGraph,   \* let todoTaskGraph
  results,         \* const results: id -> TaskStatus
  todo,            \* const todo: Set<string>
  prevSize,        \* let prevSize
  completed,       \* const completed: string[] of the current round
  idx,             \* position of the for..of loop in todoTaskGraph.roots
  continuedTasks,  \* const continuedTasks: the background drains
  pc,              \* position of the run
  threw,           \* TRUE when runAllTasks ended by an error
  log,             \* notifications received by options.lifeCycle, in order
  invocations,     \* runExecutor calls, in order: task, round, how it resolved
  round,           \* number of while-loop iterations begun
  reduceIn,        \* updateTaskGraph on its own: the graph first passed in
  reduceArgs,      \* the completed lists passed so far, in order
  reduceOut        \* the graphs returned so far, in order

\* the state of the calls of updateTaskGraph taken on its own
reduce == <<reduceIn, reduceArgs, reduceOut>>

vars == <<taskGraph, submitted, todoTaskGraph, results, todo, prevSize,
          completed, idx, continuedTasks, pc, threw, log, invocations, round,
          reduce>>

\* ---------------------------------------------------------------- inputs
\* the orderings of the members of a set
Orderings(S) ==
  {s \in [1..Cardinality(S) -> S] : \A i, j \in 1..Cardinality(S) : s[i] = s[j] => i = j}

\* dependency edges <<task, dependency>>: a dependency may be any id, also
\* the task itself or an id that is no task of the graph
Edges(T) == {E \in SUBSET (T \X TaskIds) : Cardinality(E) <= MaxEdges}

\* the graphs a caller may pass: any key order, any roots among the tasks
InputGraphs ==
  UNION {UNION {{[tasks |-> keys,
                  dependencies |->
                    [t \in T |-> SetToSeq({d \in TaskIds : <<t, d>> \in E})],
                  roots |-> roots]
                 : keys \in Orderings(T), roots \in UNION {Orderings(R) : R \in SUBSET T}}
               : E \in Edges(T)}
         : T \in SUBSET TaskIds}

Init ==
  /\ taskGraph \in InputGraphs
  /\ submitted \in SUBSET Range(taskGraph.tasks)
  /\ todoTaskGraph = taskGraph
  /\ results = <<>>
  /\ todo = {}
  /\ prevSize = 0
  /\ completed = <<>>
  /\ idx = 1
  /\ continuedTasks = <<>>
  /\ pc = "start"
  /\ threw = FALSE
  /\ log = <<>>
  /\ invocations = <<>>
  /\ round = 0
  /\ reduceIn = [tasks |-> <<>>, dependencies |-> <<>>, roots |-> <<>>]
  /\ reduceArgs = <<>>
  /\ reduceOut = <<>>

\* a notification; task, status and code are 0 / "" where the call has none
Note(op, task, status, code) ==
  [op |-> op, task |-> task, status |-> status, code |-> code]

\* ---------------------------------------------------------------- actions
\* simpleTasksRunner, line 54
StartCommand ==
  /\ pc = "start"
  /\ log' = Append(log, Note("startCommand", 0, "", 0))
  /\ pc' = "setup"
  /\ UNCHANGED <<reduce, taskGraph, submitted, todoTaskGraph, results, todo, prevSize,
                 completed, idx, continuedTasks, threw, invocations, round>>

\* variant: prevSize starts at todo.size
InitialPrevSize_Same(size) == size

\* let prevSize = todo.size + 1, line 102
InitialPrevSize(size) == size + 1

\* runAllTasks, lines 94-102
Setup ==
  /\ pc = "setup"
  /\ results' = [t \in submitted |-> "skipped"]
  /\ todo' = submitted
  /\ continuedTasks' = <<>>
  /\ todoTaskGraph' = taskGraph
  /\ prevSize' = InitialPrevSize(Cardinality(submitted))
  /\ pc' = "while"
  /\ UNCHANGED <<reduce, taskGraph, submitted, completed, idx, threw, log,
                 invocations, round>>

\* variant: the loop goes on while tasks remain, progress is not looked at
LoopCondition_NoStallCheck == 0 < Cardinality(todo)

\* the loop condition, line 103
LoopCondition == 0 < Cardinality(todo) /\ prevSize > Cardinality(todo)

\* lines 103-105: the loop condition holds, a round begins
RoundStart ==
  /\ pc = "while"
  /\ LoopCondition
  /\ prevSize' = Cardinality(todo)
  /\ completed' = <<>>
  /\ idx' = 1
  /\ round' = round + 1
  /\ pc' = "for"
  /\ UNCHANGED <<reduce, taskGraph, submitted, todoTaskGraph, results, todo,
                 continuedTasks, threw, log, invocations>>

\* line 103: the loop condition fails, on to line 134
LoopExit ==
  /\ pc = "while"
  /\ ~LoopCondition
  /\ pc' = "join"
  /\ UNCHANGED <<reduce, taskGraph, submitted, todoTaskGraph, results, todo, prevSize,
                 completed, idx, continuedTasks, threw, log, invocations, round>>

\* the task of the current for..of iteration
Current == todoTaskGraph.roots[idx]

\* variant: the first event is not awaited, the loop moves to the next root
Dispatch_NoAwait ==
  /\ pc = "for"
  /\ idx <= Len(todoTaskGraph.roots)
  /\ log' = log \o <<Note("startTasks", Current, "", 0),
                     Note("scheduleTask", Current, "", 0)>>
  /\ invocations' = Append(invocations,
                          [task |-> Current, round |-> round, outcome |-> "pending"])
  /\ idx' = idx + 1
  /\ UNCHANGED <<reduce, taskGraph, submitted, todoTaskGraph, results, todo, prevSize,
                 completed, pc, continuedTasks, threw, round>>

\* lines 106-112: next root: startTasks, scheduleTask, runExecutor is called
Dispatch ==
  /\ pc = "for"
  /\ idx <= Len(todoTaskGraph.roots)
  /\ log' = log \o <<Note("startTasks", Current, "", 0),
                     Note("scheduleTask", Current, "", 0)>>
  /\ invocations' = Append(invocations,
                          [task |-> Current, round |-> round, outcome |-> "pending"])
  /\ pc' = "await"
  /\ UNCHANGED <<reduce, taskGraph, submitted, todoTaskGraph, results, todo, prevSize,
                 completed, idx, continuedTasks, threw, round>>

\* variant: the task is not deleted from todo
Resolve_KeepTodo(status, outcome) ==
  /\ invocations' = [invocations EXCEPT ![Len(invocations)].outcome = outcome]
  /\ log' = Append(log, Note("endTasks", Current, status, ExitCode(status)))
  /\ results' = [t \in (DOMAIN results) \cup {Current} |->
                   IF t = Current THEN status ELSE results[t]]
  /\ todo' = todo
  /\ idx' = idx + 1
  /\ pc' = "for"

\* lines 127-131: endTasks, record the status, delete from todo, next root
Resolve(status, outcome) ==
  /\ invocations' = [invocations EXCEPT ![Len(invocations)].outcome = outcome]
  /\ log' = Append(log, Note("endTasks", Current, status, ExitCode(status)))
  /\ results' = [t \in (DOMAIN results) \cup {Current} |->
                   IF t = Current THEN status ELSE results[t]]
  /\ todo' = todo \ {Current}
  /\ idx' = idx + 1
  /\ pc' = "for"

\* variant: the graph is reduced as soon as a task completes, inside the round
FirstEvent_ReduceNow(success, done) ==
  /\ pc = "await"
  /\ continuedTasks' =
       IF ~done
       THEN Append(continuedTasks, [task |-> Current, got |-> 0, st |-> "pending"])
       ELSE continuedTasks
  /\ completed' = Append(completed, Current)
  /\ todoTaskGraph' = updateTaskGraph(todoTaskGraph, <<Current>>)
  /\ Resolve(StatusOf(success), StatusOf(success))
  /\ UNCHANGED <<reduce, taskGraph, submitted, prevSize, threw, round>>

\* lines 117-123, 127-131: the first event of the stream arrives
FirstEvent(success, done) ==
  /\ pc = "await"
  /\ continuedTasks' =
       IF ~done
       THEN Append(continuedTasks, [task |-> Current, got |-> 0, st |-> "pending"])
       ELSE continuedTasks
  /\ completed' = Append(completed, Current)
  /\ Resolve(StatusOf(success), StatusOf(success))
  /\ UNCHANGED <<reduce, taskGraph, submitted, todoTaskGraph, prevSize, threw, round>>

\* variant: no catch, the error of the executor leaves runAllTasks
ExecutorRaises_Uncaught ==
  /\ pc = "await"
  /\ invocations' = [invocations EXCEPT ![Len(invocations)].outcome = "raised"]
  /\ threw' = TRUE
  /\ pc' = "finally"
  /\ UNCHANGED <<reduce, taskGraph, submitted, todoTaskGraph, results, todo, prevSize,
                 completed, idx, continuedTasks, log, round>>

\* lines 124-131: runExecutor or the first next() raised; caught and logged
ExecutorRaises ==
  /\ pc = "await"
  /\ Resolve("failure", "raised")
  /\ UNCHANGED <<reduce, taskGraph, submitted, todoTaskGraph, prevSize, completed,
                 continuedTasks, threw, round>>

\* line 132: all roots of the round processed, the graph is reduced
RoundEnd ==
  /\ pc = "for"
  /\ idx > Len(todoTaskGraph.roots)
  /\ todoTaskGraph' = updateTaskGraph(todoTaskGraph, completed)
  /\ pc' = "while"
  /\ UNCHANGED <<reduce, taskGraph, submitted, results, todo, prevSize, completed,
                 idx, continuedTasks, threw, log, invocations, round>>

\* the run is suspended (or over), so a background drain may resume
Suspended == pc \in {"await", "join", "finally", "done"}

\* the promise of a drain has a rejection handler once Promise.all has been
\* called on it (line 134); before, while the loop awaits an executor, it
\* has none
Handled == pc \in {"join", "finally", "done"}

\* exhaustAsyncIterator, lines 142-144: one more output.next() settles. When
\* it raises, the promise of the drain is rejected
DrainNext(i, outcome) ==
  /\ Suspended
  /\ i \in 1..Len(continuedTasks)
  /\ continuedTasks[i].st = "pending"
  /\ \/ /\ outcome = "value"
        /\ continuedTasks[i].got < MaxExtra
        /\ continuedTasks' =
             [continuedTasks EXCEPT ![i].got = continuedTasks[i].got + 1]
     \/ /\ outcome = "done"
        /\ continuedTasks' = [continuedTasks EXCEPT ![i].st = "done"]
     \/ /\ outcome = "raise"
        /\ continuedTasks' = [continuedTasks EXCEPT ![i].st = "rejected"]
  /\ UNCHANGED <<reduce, taskGraph, submitted, todoTaskGraph, results, todo, prevSize,
                 completed, idx, pc, threw, log, invocations, round>>

\* a rejection that has no handler: the run may still reach line 134 in the
\* same tick, or the host only warns; otherwise the process is ended when the
\* tick is over, the loop awaiting an executor, with no further notification
UnhandledRejection ==
  /\ Suspended
  /\ ~Handled
  /\ \E i \in 1..Len(continuedTasks) : continuedTasks[i].st = "rejected"
  /\ pc' = "exit"
  /\ UNCHANGED <<reduce, taskGraph, submitted, todoTaskGraph, results, todo, prevSize,
                 completed, idx, continuedTasks, threw, log, invocations, round>>

AllDrained == \A i \in 1..Len(continuedTasks) : continuedTasks[i].st = "done"

SomeRejected == \E i \in 1..Len(continuedTasks) : continuedTasks[i].st = "rejected"

\* lines 134-135: Promise.all resolved, results is returned
JoinReturn ==
  /\ pc = "join"
  /\ AllDrained
  /\ pc' = "finally"
  /\ UNCHANGED <<reduce, taskGraph, submitted, todoTaskGraph, results, todo, prevSize,
                 completed, idx, continuedTasks, threw, log, invocations, round>>

\* line 134: Promise.all rejected with the error of a drain
JoinThrow ==
  /\ pc = "join"
  /\ SomeRejected
  /\ threw' = TRUE
  /\ pc' = "finally"
  /\ UNCHANGED <<reduce, taskGraph, submitted, todoTaskGraph, results, todo, prevSize,
                 completed, idx, continuedTasks, log, invocations, round>>

\* simpleTasksRunner, lines 57-59
EndCommand ==
  /\ pc = "finally"
  /\ log' = Append(log, Note("endCommand", 0, "", 0))
  /\ pc' = "done"
  /\ UNCHANGED <<reduce, taskGraph, submitted, todoTaskGraph, results, todo, prevSize,
                 completed, idx, continuedTasks, threw, invocations, round>>

Next ==
  \/ StartCommand
  \/ Setup
  \/ RoundStart
  \/ LoopExit
  \/ Dispatch
  \/ \E success \in BOOLEAN, done \in BOOLEAN : FirstEvent(success, done)
  \/ ExecutorRaises
  \/ RoundEnd
  \/ \E i \in 1..Len(continuedTasks), o \in {"value", "done", "raise"} :
       DrainNext(i, o)
  \/ UnhandledRejection
  \/ JoinReturn
  \/ JoinThrow
  \/ EndCommand

Spec == Init /\ [][Next]_vars

\* every awaited promise settles: an executor call yields or raises, every
\* stream ends, and the run itself keeps going between its awaits
FairSpec == Spec /\ WF_vars(Next)

\* ------------------------------------------- updateTaskGraph on its own
\* the graphs updateTaskGraph may be given: any key order, dependency lists
\* in any order, roots the dependency-free tasks or none (roots is not read)
ReduceGraphs ==
  UNION {UNION {{[tasks |-> keys, dependencies |-> deps, roots |-> roots]
                 : keys \in Orderings(T),
                   deps \in {d \in [T -> UNION {Orderings(D) : D \in SUBSET TaskIds}] :
                              \A t \in T : Range(d[t]) = {x \in TaskIds : <<t, x>> \in E}},
                   roots \in {<<>>, SetToSeq({t \in T : \A x \in TaskIds : <<t, x>> \notin E})}}
               : E \in Edges(T)}
         : T \in SUBSET TaskIds}

\* the completed arrays: any ids in any order, also ids that are no task
CompletedLists == UNION {Orderings(C) : C \in SUBSET TaskIds}

ReduceInit ==
  /\ reduceIn \in ReduceGraphs
  /\ reduceArgs = <<>>
  /\ reduceOut = <<>>
  /\ taskGraph = [tasks |-> <<>>, dependencies |-> <<>>, roots |-> <<>>]
  /\ submitted = {}
  /\ todoTaskGraph = taskGraph
  /\ results = <<>>
  /\ todo = {}
  /\ prevSize = 0
  /\ completed = <<>>
  /\ idx = 1
  /\ continuedTasks = <<>>
  /\ pc = "idle"
  /\ threw = FALSE
  /\ log = <<>>
  /\ invocations = <<>>
  /\ round = 0

\* the graph the call number i is given: the first graph, then each result
ReduceInput(i) == IF i = 1 THEN reduceIn ELSE reduceOut[i - 1]

\* updateTaskGraph(old, completed), lines 62-71: a call on the first graph,
\* then a call on its result
Reduce(completedIds) ==
  /\ pc = "idle"
  /\ Len(reduceArgs) < 2
  /\ reduceArgs' = Append(reduceArgs, completedIds)
  /\ reduceOut' = Append(reduceOut,
                         updateTaskGraph(ReduceInput(Len(reduceArgs) + 1), completedIds))
  /\ UNCHANGED <<reduceIn, taskGraph, submitted, todoTaskGraph, results, todo,
                 prevSize, completed, idx, continuedTasks, pc, threw, log,
                 invocations, round>>

ReduceNext == \E completedIds \in CompletedLists : Reduce(completedIds)

ReduceSpec == ReduceInit /\ [][ReduceNext]_vars

\* ---------------------------------------------------------------- vocabulary
Terminal == {"success", "failure"}

TaskSet(g) == Range(g.tasks)

Deps(g, t) == Range(g.dependencies[t])

\* the ids task t reaches along dependency edges of g, in at least one step
RECURSIVE ReachFrom(_, _, _)
ReachFrom(g, frontier, seen) ==
  LET next == UNION {IF d \in TaskSet(g) THEN Deps(g, d) ELSE {} : d \in frontier}
  IN IF next \subseteq seen THEN seen ELSE ReachFrom(g, next \ seen, seen \cup next)

Reach(g, t) == ReachFrom(g, Deps(g, t), Deps(g, t))

OnCycle(g, t) == t \in TaskSet(g) /\ t \in Reach(g, t)

Acyclic(g) == \A t \in TaskSet(g) : ~OnCycle(g, t)

FullyDeclared(g) == \A t \in TaskSet(g) : Deps(g, t) \subseteq TaskSet(g)

RootsDepFree(g) == \A t \in Range(g.roots) : g.dependencies[t] = <<>>

RootsExact(g) == Range(g.roots) = {t \in TaskSet(g) : g.dependencies[t] = <<>>}

\* the graphs the contract asks of the caller
WellFormed(g) == Acyclic(g) /\ FullyDeclared(g) /\ RootsExact(g)

Returned == pc = "done" /\ ~threw

Started == pc \notin {"start", "setup"}

Dispatched(t) == \E i \in 1..Len(invocations) : invocations[i].task = t

DispatchCount(t) ==
  Cardinality({i \in 1..Len(invocations) : invocations[i].task = t})

Raised(t) ==
  \E i \in 1..Len(invocations) :
    invocations[i].task = t /\ invocations[i].outcome = "raised"

\* ---------------------------------------------------------------- claims

\* C1: for an acyclic, fully declared graph whose roots are exactly the tasks
\* with no dependency and whose tasks include the submitted ones, at return
\* every submitted task has status success or failure, none is left skipped.
C1_AllResolved ==
  (Returned /\ WellFormed(taskGraph) /\ submitted \subseteq TaskSet(taskGraph))
    => \A t \in submitted : results[t] \in Terminal

\* C2: once results is initialised, and at return, its key set is exactly
\* the set of submitted task ids: no entry for a task of the graph that was
\* not submitted (read on the graphs the contract allows).
C2_KeySet ==
  (Started /\ WellFormed(taskGraph) /\ submitted \subseteq TaskSet(taskGraph))
    => DOMAIN results = submitted

\* C3: the executor is invoked at most once per task id in a run, whatever
\* the outcomes (read on a well-formed graph whose tasks are all submitted).
C3_AtMostOnce ==
  (WellFormed(taskGraph) /\ submitted = TaskSet(taskGraph))
    => \A t \in TaskIds : DispatchCount(t) <= 1

\* C4: when the caller's roots all have an empty dependency list, every
\* dispatched task has each of its declared dependencies dispatched in a
\* strictly earlier round, with a terminal status recorded for it.
C4_DepsFirst ==
  RootsDepFree(taskGraph) =>
    \A i \in 1..Len(invocations) :
      \A d \in Deps(taskGraph, invocations[i].task) :
        /\ \E j \in 1..(i - 1) :
             /\ invocations[j].task = d
             /\ invocations[j].round < invocations[i].round
        /\ d \in DOMAIN results
        /\ results[d] \in Terminal

\* a task with a dependency has been dispatched, from well-formed roots
C4_Witness ==
  /\ RootsDepFree(taskGraph)
  /\ pc = "await"
  /\ Deps(taskGraph, Current) # {}

\* C5: failure does not block dependents: when the run is over, a submitted
\* task all of whose dependencies were dispatched has been dispatched too
\* and its status is its own success or failure, never skipped (well-formed
\* acyclic graph, every task of the graph submitted).
C5_DependentsRun ==
  (pc = "done" /\ WellFormed(taskGraph) /\ submitted = TaskSet(taskGraph))
    => \A t \in submitted :
         (\A d \in Deps(taskGraph, t) : Dispatched(d))
           => Dispatched(t) /\ results[t] \in Terminal

\* every submitted task lies on a dependency cycle and the caller's root set
\* is empty
CycleInput ==
  /\ submitted # {}
  /\ \A t \in submitted : OnCycle(taskGraph, t)
  /\ taskGraph.roots = <<>>

\* C6: when every submitted task lies on a dependency cycle and the root set
\* is empty, the executor is never invoked, no startTasks, scheduleTask or
\* endTasks is notified, and the run ends after exactly one round, returning
\* every submitted task as skipped.
C6_CycleAllSkipped ==
  CycleInput =>
    /\ invocations = <<>>
    /\ \A i \in 1..Len(log) : log[i].op \in {"startCommand", "endCommand"}
    /\ round <= 1
    /\ pc \in {"join", "finally", "done"} =>
         /\ round = 1
         /\ ~threw
         /\ results = [t \in submitted |-> "skipped"]

\* a run on a two-task cycle has returned
C6_Witness ==
  /\ CycleInput
  /\ Cardinality(submitted) = 2
  /\ Returned

\* the step in which the pending executor call raises
RaiseStep ==
  /\ pc = "await"
  /\ invocations[Len(invocations)].outcome = "pending"
  /\ invocations'[Len(invocations')].outcome = "raised"

\* C7: an executor error is not fatal: the step that catches it records
\* failure for the task, notifies endTasks with failure and code 1 and moves
\* to the next root of the unchanged round snapshot without raising; every
\* root before the loop position was dispatched in this round and the next
\* one can be; a round follows whenever todo is non-empty and has shrunk; and
\* the run ends by an error only when a background drain was rejected.
C7_RaiseNotFatal ==
  /\ [][RaiseStep =>
          /\ results'[Current] = "failure"
          /\ log' = Append(log, Note("endTasks", Current, "failure", 1))
          /\ pc' = "for"
          /\ idx' = idx + 1
          /\ todoTaskGraph' = todoTaskGraph
          /\ ~threw']_vars
  /\ [][(pc' = "for") =>
          /\ \A k \in 1..(idx' - 1) :
               \E i \in 1..Len(invocations') :
                 /\ invocations'[i].task = todoTaskGraph'.roots[k]
                 /\ invocations'[i].round = round'
          /\ (idx' <= Len(todoTaskGraph'.roots)) => (ENABLED Dispatch)']_vars
  /\ [][(pc = "while" /\ todo # {} /\ Cardinality(todo) < prevSize)
          => (pc' = "for" /\ round' = round + 1)]_vars
  /\ [][threw' => SomeRejected']_vars

\* after an executor raised, the next root of the same round was dispatched
\* and resolved, and the run returned its results
C7_Witness ==
  /\ Returned
  /\ \E i, j \in 1..Len(invocations) :
       /\ invocations[i].outcome = "raised"
       /\ i < j
       /\ invocations[j].round = invocations[i].round
       /\ invocations[j].outcome = "success"
       /\ results[invocations[i].task] = "failure"

\* C8: when the run has returned or endCommand was notified, no background
\* drain is still pending.
C8_NoPendingDrain ==
  ((pc = "finally" /\ ~threw) \/ pc = "done")
    => \A i \in 1..Len(continuedTasks) : continuedTasks[i].st # "pending"

\* C9: when every awaited promise settles the run ends, whatever the graph,
\* and it ends by returning unless the stream of a drain raised (a stream
\* that raises is not one that ends); a round begins only
\* while todo is non-empty and smaller than before the previous round, and
\* no run begins more than N + 1 rounds for N submitted tasks.
C9_Terminates ==
  /\ <>(pc \in {"done", "exit"})
  /\ [][(pc' \in {"done", "exit"} /\ ~SomeRejected') => (pc' = "done" /\ ~threw')]_vars
  /\ [][(round' # round) =>
          /\ round' = round + 1
          /\ todo # {}
          /\ Cardinality(todo) < prevSize
          /\ prevSize' = Cardinality(todo)]_vars
  /\ [][round' <= Cardinality(submitted) + 1]_vars

\* a run on a graph with a cycle or a missing dependency ended stalled after
\* a round that made progress
C9_Witness ==
  /\ pc = "done"
  /\ todo # {}
  /\ round >= 2
  /\ ~(Acyclic(taskGraph) /\ FullyDeclared(taskGraph))

\* the notifications between startCommand and endCommand
LogBody ==
  IF pc \in {"done", "exit"} THEN SubSeq(log, 2, Len(log) - 1) ELSE SubSeq(log, 2, Len(log))

\* C10: the notifications are startCommand, then triples startTasks(T),
\* scheduleTask(T), endTasks(T) of one task each with nothing in between (the
\* last triple lacks its endTasks exactly while the executor is awaited),
\* then endCommand, exactly once and last, however the run ends.
C10_LogShape ==
  /\ pc = "start" => log = <<>>
  /\ pc # "start" => Len(log) >= 1 /\ log[1].op = "startCommand"
  /\ \A i \in 2..Len(log) : log[i].op # "startCommand"
  /\ \A i \in 1..Len(log) :
       log[i].op = "endCommand" <=> (pc \in {"done", "exit"} /\ i = Len(log))
  /\ pc \in {"done", "exit"} => Len(log) >= 2
  /\ Len(LogBody) % 3 = (IF pc = "await" THEN 2 ELSE 0)
  /\ \A k \in 1..Len(LogBody) :
       /\ k % 3 = 1 => LogBody[k].op = "startTasks"
       /\ k % 3 = 2 => /\ LogBody[k].op = "scheduleTask"
                       /\ LogBody[k].task = LogBody[k - 1].task
       /\ k % 3 = 0 => /\ LogBody[k].op = "endTasks"
                       /\ LogBody[k].task = LogBody[k - 1].task

\* the step in which the pending executor call yields its first event
FirstEventStep ==
  /\ pc = "await"
  /\ invocations[Len(invocations)].outcome = "pending"
  /\ invocations'[Len(invocations')].outcome \in Terminal

\* a step of a background drain
DrainStep == continuedTasks' # continuedTasks /\ Len(continuedTasks') = Len(continuedTasks)

\* C11: drains neither block nor influence scheduling: the first event alone
\* sets the status of its task and the loop moves on at once; whatever the
\* state of the drains, the next step of the loop is enabled and an awaited
\* executor call ends only by its own answer; and a step of a drain, also
\* one in which its stream raises, leaves results, todo, the graph and the
\* position of the loop unchanged.
C11_DrainsApart ==
  /\ [][FirstEventStep =>
          /\ results'[Current] = invocations'[Len(invocations')].outcome
          /\ pc' = "for"
          /\ idx' = idx + 1]_vars
  /\ [][DrainStep =>
          UNCHANGED <<results, todo, todoTaskGraph, completed, prevSize, idx,
                      pc, round, log, invocations>>]_vars
  /\ [][/\ (pc' = "for" /\ idx' <= Len(todoTaskGraph'.roots)) => (ENABLED Dispatch)'
        /\ (pc' = "for" /\ idx' > Len(todoTaskGraph'.roots)) => (ENABLED RoundEnd)'
        /\ (pc' = "while") => (ENABLED RoundStart \/ ENABLED LoopExit)'
        /\ (pc' = "await") => (ENABLED ExecutorRaises)']_vars
  /\ [][(pc = "await" /\ pc' # "await") =>
          (pc' = "for" /\ invocations'[Len(invocations')].outcome # "pending")]_vars

\* an executor call is awaited, or was when the process ended
InFlight == pc \in {"await", "exit"}

\* the number of notifications op in the log
CountOp(op) == Cardinality({i \in 1..Len(log) : log[i].op = op})

\* C12: dispatch is sequential: a task is between scheduleTask and endTasks
\* exactly while its executor is awaited, so at most one at a time; every
\* earlier executor call has resolved, its endTasks notified and its status
\* recorded, before the next root is dispatched.
C12_Sequential ==
  /\ CountOp("scheduleTask") - CountOp("endTasks") = (IF InFlight THEN 1 ELSE 0)
  /\ Len(invocations) = CountOp("scheduleTask")
  /\ \A i \in 1..Len(invocations) :
       (i < Len(invocations) \/ ~InFlight) =>
         /\ invocations[i].outcome # "pending"
         /\ invocations[i].task \in DOMAIN results
         /\ results[invocations[i].task] \in Terminal
         /\ \E k \in 1..Len(log) :
              log[k].op = "endTasks" /\ log[k].task = invocations[i].task

\* the second root of a round is awaited while the first root's drain is
\* still pending
C12_Witness ==
  /\ pc = "await"
  /\ Len(invocations) = 2
  /\ invocations[1].round = invocations[2].round
  /\ \E i \in 1..Len(continuedTasks) : continuedTasks[i].st = "pending"

\* the tasks dispatched in round r, in the order of their dispatch
RoundTasks(r) ==
  LET sel == SelectSeq(invocations, LAMBDA v : v.round = r)
  IN [i \in 1..Len(sel) |-> sel[i].task]

\* C13: the tasks dispatched in a round are the roots of the graph snapshot
\* of that round, in its order, up to the position of the loop; the snapshot
\* changes only by the one reduction that ends a round, made after every
\* root was processed, with the completed list of that round; so a task
\* that lost its last dependency in a round is dispatched in a later one.
C13_RoundSnapshot ==
  /\ [][(pc' \in {"for", "await"}) =>
          /\ Len(RoundTasks(round)') = (IF pc' = "await" THEN idx' ELSE idx' - 1)
          /\ \A k \in 1..Len(RoundTasks(round)') :
               /\ k <= Len(todoTaskGraph'.roots)
               /\ RoundTasks(round)'[k] = todoTaskGraph'.roots[k]]_vars
  /\ [][(todoTaskGraph' # todoTaskGraph) =>
          /\ pc = "for"
          /\ idx > Len(todoTaskGraph.roots)
          /\ pc' = "while"
          /\ todoTaskGraph' = updateTaskGraph(todoTaskGraph, completed)]_vars
  /\ [][(pc' = "while" /\ pc # "while") =>
          \/ pc = "setup"
          \/ pc = "for" /\ idx > Len(todoTaskGraph.roots)]_vars
  /\ [][(round' # round) => pc = "while"]_vars

\* on a graph with exact roots, a task that had a dependency is awaited in
\* round 2, after its dependency completed in round 1
C13_Witness ==
  /\ RootsExact(taskGraph)
  /\ pc = "await"
  /\ round = 2
  /\ Deps(taskGraph, Current) # {}
  /\ \A d \in Deps(taskGraph, Current) :
       \E i \in 1..Len(invocations) :
         invocations[i].task = d /\ invocations[i].round = 1

\* C14: a round leaves the size of todo unchanged only if the roots were
\* empty at its start: when all roots of a round are processed and at least
\* one was dispatched, todo is smaller than at the start of the round (read
\* on a well-formed graph whose tasks are all submitted).
C14_DispatchShrinksTodo ==
  (WellFormed(taskGraph) /\ submitted = TaskSet(taskGraph)
     /\ pc = "for" /\ idx > Len(todoTaskGraph.roots))
    => (Cardinality(todo) = prevSize => Len(todoTaskGraph.roots) = 0)

\* C15: once the run is set up, a submitted task is in todo exactly when its
\* result is skipped and out of todo exactly when its result is success or
\* failure; todo holds submitted ids only and never grows; and whenever no
\* executor call is awaited, so at every round boundary and at return, the
\* skipped submitted tasks are exactly those never dispatched.
C15_TodoMirrorsResults ==
  /\ [][Started' =>
          /\ todo' \subseteq submitted'
          /\ \A t \in submitted' :
               /\ t \in DOMAIN results'
               /\ (t \in todo') <=> (results'[t] = "skipped")
               /\ (t \notin todo') <=> (results'[t] \in Terminal)
          /\ (~InFlight') =>
               \A t \in submitted' : (results'[t] = "skipped") <=> ~Dispatched(t)']_vars
  /\ [][Started => todo' \subseteq todo]_vars

\* a stalled run is over: a submitted task was dispatched and resolved,
\* another was never dispatched and is still in todo, skipped
C15_Witness ==
  /\ pc = "done"
  /\ \E t, u \in submitted :
       /\ Dispatched(t) /\ results[t] \in Terminal /\ t \notin todo
       /\ ~Dispatched(u) /\ results[u] = "skipped" /\ u \in todo

\* C16: a result entry that holds success or failure is never changed again
\* (read on a well-formed graph whose tasks are all submitted).
C16_StatusOnce ==
  [][(WellFormed(taskGraph) /\ submitted = TaskSet(taskGraph)) =>
       \A t \in DOMAIN results :
         (results[t] \in Terminal) =>
           (t \in DOMAIN results' /\ results'[t] = results[t])]_vars

\* C17: when a round has ended and the graph was reduced, no task dispatched
\* in that round, whatever its outcome, is left in the tasks, the roots or a
\* dependency list of the new graph snapshot (read on a well-formed graph
\* whose tasks are all submitted).
C17_DispatchedRemoved ==
  (WellFormed(taskGraph) /\ submitted = TaskSet(taskGraph)
     /\ pc = "while" /\ round >= 1)
    => \A i \in 1..Len(invocations) :
         (invocations[i].round = round) =>
           /\ invocations[i].task \notin TaskSet(todoTaskGraph)
           /\ invocations[i].task \notin Range(todoTaskGraph.roots)
           /\ \A t \in TaskSet(todoTaskGraph) :
                invocations[i].task \notin Deps(todoTaskGraph, t)

\* every root is a task with an empty dependency list, every dependency list
\* belongs to a task and names tasks of the graph only
Consistent(g) ==
  /\ Range(g.roots) \subseteq TaskSet(g)
  /\ DOMAIN g.dependencies = TaskSet(g)
  /\ RootsDepFree(g)
  /\ FullyDeclared(g)

\* C20: when the caller's graph is well-formed (roots have no dependency,
\* every dependency is a task of the graph), so is the graph snapshot of
\* every round: roots are tasks with an empty dependency list and no
\* dependency list names an id that is no longer a task.
C20_SnapshotsConsistent ==
  (RootsDepFree(taskGraph) /\ FullyDeclared(taskGraph)) => Consistent(todoTaskGraph)

\* a later round runs on a reduced snapshot that still has a root
C20_Witness ==
  /\ Consistent(taskGraph)
  /\ round = 2
  /\ pc = "await"
  /\ todoTaskGraph # taskGraph
  /\ Len(taskGraph.tasks) = 2

\* sub is s with exactly the members of C taken out, the others in their order
Pruned(s, sub, C) ==
  /\ Len(sub) = Cardinality({k \in 1..Len(s) : s[k] \notin C})
  /\ \A i \in 1..Len(sub) : sub[i] \notin C
  /\ \E f \in [1..Len(sub) -> 1..Len(s)] :
       /\ \A i, j \in 1..Len(sub) : i < j => f[i] < f[j]
       /\ \A i \in 1..Len(sub) : sub[i] = s[f[i]]

\* h is g reduced by the ids C
ReducedBy(g, h, C) ==
  /\ Pruned(g.tasks, h.tasks, C)
  /\ TaskSet(h) = TaskSet(g) \ C
  /\ DOMAIN h.dependencies = TaskSet(h)
  /\ \A t \in TaskSet(h) : Pruned(g.dependencies[t], h.dependencies[t], C)
  /\ Range(h.roots) = {t \in TaskSet(h) : h.dependencies[t] = <<>>}

\* C18: updateTaskGraph(g, C) returns the graph whose tasks are those of g
\* outside C, whose dependency lists are the old lists with exactly the
\* members of C taken out, order kept, and whose roots are exactly the
\* remaining tasks with an empty pruned list; ids of C that are no task of g
\* are ignored.
C18_ReduceResult ==
  \A i \in 1..Len(reduceOut) :
    ReducedBy(ReduceInput(i), reduceOut[i], Range(reduceArgs[i]))

\* a call that removes a task and prunes a dependency list of two ids down
\* to one, then a call given a task and an id that is no task of its graph
C18_Witness ==
  /\ Len(reduceOut) = 2
  /\ Range(reduceArgs[1]) \cap TaskSet(reduceIn) # {}
  /\ \E t \in TaskSet(reduceOut[1]) :
       /\ Len(reduceIn.dependencies[t]) = 2
       /\ Len(reduceOut[1].dependencies[t]) = 1
  /\ Range(reduceArgs[2]) \cap TaskSet(reduceOut[1]) # {}
  /\ Range(reduceArgs[2]) \ TaskSet(reduceOut[1]) # {}

\* C19: for disjoint completed sets A and B, B holding only ids whose
\* dependencies are in A or among the remaining tasks, reducing by A and then
\* by B gives the same graph as reducing once by the union of A and B.
C19_ReduceComposes ==
  (/\ Len(reduceOut) = 2
   /\ Range(reduceArgs[1]) \cap Range(reduceArgs[2]) = {}
   /\ \A b \in Range(reduceArgs[2]) \cap TaskSet(reduceIn) :
        Deps(reduceIn, b) \subseteq Range(reduceArgs[1]) \cup TaskSet(reduceOut[1]))
    => \A u \in Orderings(Range(reduceArgs[1]) \cup Range(reduceArgs[2])) :
         reduceOut[2] = updateTaskGraph(reduceIn, u)

\* two calls that each remove a task, the second one a task that depended on
\* the first
C19_Witness ==
  /\ Len(reduceOut) = 2
  /\ Range(reduceArgs[1]) \cap Range(reduceArgs[2]) = {}
  /\ \E a \in Range(reduceArgs[1]) \cap TaskSet(reduceIn) :
       \E b \in Range(reduceArgs[2]) \cap TaskSet(reduceIn) :
         /\ Deps(reduceIn, b) = {a}
         /\ b \in Range(reduceOut[1].roots)
         /\ b \notin Range(reduceIn.roots)
  /\ \A b \in Range(reduceArgs[2]) \cap TaskSet(reduceIn) :
       Deps(reduceIn, b) \subseteq Range(reduceArgs[1]) \cup TaskSet(reduceOut[1])

====
